---- MODULE Spec2Model ----
(***************************************************************************)
(* Caffind API (server/main.py): the FastAPI application with its six      *)
(* routes, the two authentication dependencies and the three external      *)
(* collaborators (googletrans, firebase_admin.auth, huggingface_hub).      *)
(*                                                                         *)
(* Text supplied by the client (header values, language codes, messages)   *)
(* is a sequence of one-character strings, so that length validation and   *)
(* str.startswith / str.replace are computed as Python computes them.      *)
(* Fixed texts of the program (error details, prompts) are TLA+ strings.   *)
(* Python's None is the empty tuple and a present value v is <<v>>.        *)
(***************************************************************************)
EXTENDS Integers, Sequences, FiniteSets, TLC

VARIABLES req, pc, loop, calls, rets, resp

vars == <<req, pc, loop, calls, rets, resp>>

(* ------------------------------ bounds --------------------------------- *)

\* Requests in flight in the single server process.
NumReqs == 2
\* A header value is built from at most this many chunks of HeaderChunks.
MaxChunks == 4
\* Language codes of length 1..MaxCodeLen are tried.
MaxCodeLen == 6
\* Texts and chat messages of length 0..MaxTextLen are tried.
MaxTextLen == 2
\* Chat histories of length 0..MaxHistory are tried.
MaxHistory == 1

Reqs == 1..NumReqs

(* ------------------------- Python values ------------------------------- *)

None == <<>>
Some(v) == <<v>>
IsNone(o) == o = <<>>
Get(o) == o[1]

\* str.startswith(prefix)
StartsWith(s, prefix) ==
    /\ Len(s) >= Len(prefix)
    /\ SubSeq(s, 1, Len(prefix)) = prefix

\* str.replace(old, new): every non-overlapping occurrence, scanning from the left
RECURSIVE Replace(_, _, _)
Replace(s, old, new) ==
    IF Len(s) < Len(old) \/ Len(old) = 0 THEN s
    ELSE IF StartsWith(s, old)
         THEN new \o Replace(SubSeq(s, Len(old) + 1, Len(s)), old, new)
         ELSE <<Head(s)>> \o Replace(Tail(s), old, new)

\* "not x" on an optional string: None and "" are falsy
Falsy(o) == IF IsNone(o) THEN TRUE ELSE Get(o) = <<>>

\* "x or default" on an optional string
OrElse(o, default) == IF Falsy(o) THEN default ELSE Get(o)

Bearer == <<"B", "e", "a", "r", "e", "r", " ">>
Auto == <<"a", "u", "t", "o">>
En == <<"e", "n">>

(* --------------------------- exceptions -------------------------------- *)

\* Exception classes raised by the collaborators and their base classes
\* (firebase_admin: ExpiredIdTokenError derives from InvalidIdTokenError).
Parent(cls) ==
    CASE cls = "ExpiredIdTokenError" -> "InvalidIdTokenError"
      [] cls = "InvalidIdTokenError" -> "Exception"
      [] cls = "UserNotFoundError" -> "Exception"
      [] cls = "IndexError" -> "Exception"
      [] cls = "ValidationError" -> "Exception"
      [] cls = "RuntimeError" -> "Exception"
      [] OTHER -> "BaseException"

RECURSIVE IsInstance(_, _)
IsInstance(cls, base) ==
    IF cls = base THEN TRUE
    ELSE IF cls = "BaseException" THEN FALSE
    ELSE IsInstance(Parent(cls), base)

\* try/except: the index of the first except clause that catches exc
RECURSIVE FirstMatch(_, _, _)
FirstMatch(clauses, exc, i) ==
    IF i > Len(clauses) THEN 0
    ELSE IF IsInstance(exc.cls, clauses[i]) THEN i
    ELSE FirstMatch(clauses, exc, i + 1)

Raised(cls, msg) == [raised |-> TRUE, cls |-> cls, msg |-> msg, val |-> None]
Returned(v) == [raised |-> FALSE, cls |-> "", msg |-> "", val |-> Some(v)]

\* HTTPException(status_code, detail) and a returned body (status 200)
HTTPException(status, detail) == [status |-> status, detail |-> detail, body |-> None]
Ok(body) == [status |-> 200, detail |-> "", body |-> Some(body)]
\* the framework's answer to a request that fails validation
RequestValidationError == [status |-> 422, detail |-> "validation", body |-> None]

(* ----------------------- request validation ---------------------------- *)

TextMinLength == 1
TargetMinLength == 2
TargetMaxLength == 5
SourceMinLength == 2
SourceMaxLength == 5
MessageMinLength == 1

\* Field(min_length=lo, max_length=hi) on a field that may be left out
LenBetween(o, lo, hi) ==
    IF IsNone(o) THEN TRUE ELSE Len(Get(o)) >= lo /\ Len(Get(o)) <= hi

\* ValidTranslateRequest with the max_length of the language codes left out
ValidTranslateRequest_NoMaxLength(p) ==
    /\ Len(p.text) >= TextMinLength
    /\ IF IsNone(p.target) THEN TRUE ELSE Len(Get(p.target)) >= TargetMinLength
    /\ IF IsNone(p.source) THEN TRUE ELSE Len(Get(p.source)) >= SourceMinLength

\* TranslateRequest: text min_length=1; target default "en", 2..5; source optional, 2..5
ValidTranslateRequest(p) ==
    /\ Len(p.text) >= TextMinLength
    /\ LenBetween(p.target, TargetMinLength, TargetMaxLength)
    /\ LenBetween(p.source, SourceMinLength, SourceMaxLength)

\* payload.target after validation: the field default when the body omits it
TargetOf(p) == IF IsNone(p.target) THEN En ELSE Get(p.target)

\* ChatRequest: message min_length=1; history optional list of ChatMessage
ValidChatRequest(p) == Len(p.message) >= MessageMinLength

\* authorization: str = Header(...): a required header; Header(None): optional
RequiredHeaderPresent(authorization) == ~IsNone(authorization)

(* -------------------------- /translate --------------------------------- *)

\* translator.translate(payload.text, dest=payload.target, src=payload.source or "auto")
TranslateCall(p) ==
    [op |-> "translate", text |-> p.text, dest |-> TargetOf(p),
     src |-> OrElse(p.source, Auto)]

\* a result for which inspect.isawaitable(result) holds
Awaitable == [awaitable |-> TRUE]

\* except Exception as exc: raise HTTPException(status_code=500, detail=str(exc))
TranslateOnError(exc) == HTTPException(500, exc.msg)

\* TranslateResponse with the result's src and dest exchanged
TranslateResponse_Swapped(result) ==
    Ok([translated_text |-> result.text, detected_source |-> result.dest,
        target |-> result.src])

\* TranslateResponse(translated_text=result.text, detected_source=result.src, target=result.dest)
TranslateResponse(result) ==
    Ok([translated_text |-> result.text, detected_source |-> result.src,
        target |-> result.dest])

\* the handler's answer once the engine's result (direct or awaited) is known
TranslateFinish(outcome) ==
    IF outcome.raised THEN TranslateOnError(outcome)
    ELSE TranslateResponse(Get(outcome.val))

(* ------------------------ authentication ------------------------------- *)

\* authorization.replace("Bearer ", "") if authorization.startswith("Bearer ") else authorization
ExtractToken(authorization) ==
    IF StartsWith(authorization, Bearer)
    THEN Replace(authorization, Bearer, <<>>)
    ELSE authorization

VerifyIdTokenCall(token) == [op |-> "verify_id_token", arg |-> token]
GetUserCall(uid) == [op |-> "get_user", arg |-> uid]
DeleteUserCall(uid) == [op |-> "delete_user", arg |-> uid]

\* the except clauses of require_auth, in source order
RequireAuthClauses == <<"InvalidIdTokenError", "ExpiredIdTokenError", "Exception">>

RequireAuthOnError(exc) ==
    LET i == FirstMatch(RequireAuthClauses, exc, 1) IN
    CASE i = 1 -> HTTPException(401, "Invalid ID token")
      [] i = 2 -> HTTPException(401, "Token has expired")
      [] OTHER -> HTTPException(401, exc.msg)

\* if not authorization: raise HTTPException(401, "Authorization header required")
RequireAuthMissing == HTTPException(401, "Authorization header required")

UserInfo(user) ==
    [uid |-> user.uid, email |-> user.email, display_name |-> user.display_name,
     photo_url |-> user.photo_url, provider_id |-> user.provider_id]

TokenVerifyResponse(valid, user, error) ==
    Ok([valid |-> valid, user |-> user, error |-> error])

\* the except clauses of verify_token, in source order
VerifyTokenClauses == <<"InvalidIdTokenError", "ExpiredIdTokenError", "Exception">>

\* verify_token failing the request the way require_auth does
VerifyTokenOnError_AsGate(exc) == RequireAuthOnError(exc)

VerifyTokenOnError(exc) ==
    LET i == FirstMatch(VerifyTokenClauses, exc, 1) IN
    CASE i = 1 -> TokenVerifyResponse(FALSE, None, Some("Invalid token"))
      [] i = 2 -> TokenVerifyResponse(FALSE, None, Some("Token expired"))
      [] OTHER -> TokenVerifyResponse(FALSE, None, Some(exc.msg))

VerifyTokenMissing == TokenVerifyResponse(FALSE, None, Some("No token provided"))

VerifyTokenOk(user) == TokenVerifyResponse(TRUE, Some(UserInfo(user)), None)

\* the except clauses of delete_user_account and get_current_user_info
UserClauses == <<"UserNotFoundError", "Exception">>

\* delete_user_account without its UserNotFoundError clause
DeleteUserOnError_All500(exc) == HTTPException(500, exc.msg)

DeleteUserOnError(exc) ==
    LET i == FirstMatch(UserClauses, exc, 1) IN
    CASE i = 1 -> HTTPException(404, "User not found")
      [] OTHER -> HTTPException(500, exc.msg)

DeleteUserOk == Ok([success |-> TRUE, message |-> "Account deleted successfully"])

GetUserOnError(exc) ==
    LET i == FirstMatch(UserClauses, exc, 1) IN
    CASE i = 1 -> HTTPException(404, "User not found")
      [] OTHER -> HTTPException(500, exc.msg)

GetUserOk(user) == Ok(UserInfo(user))

(* ------------------------------ /chat ---------------------------------- *)

SystemPrompt == "You are a friendly coffee expert. Keep answers short."
ModelId == "meta-llama/Meta-Llama-3-8B-Instruct"
MaxTokens == 150
Fallback == "Sorry, couldn't connect. Try again!"

\* ChatMessages with the history threaded between the prompt and the message
ChatMessages_WithHistory(p) ==
    << [role |-> "system", content |-> SystemPrompt] >>
    \o (IF IsNone(p.history) THEN <<>> ELSE Get(p.history))
    \o << [role |-> "user", content |-> p.message] >>

ChatMessages(p) ==
    << [role |-> "system", content |-> SystemPrompt],
       [role |-> "user", content |-> p.message] >>

ChatCall(p) ==
    [op |-> "chat_completion", messages |-> ChatMessages(p), model |-> ModelId,
     max_tokens |-> MaxTokens]

\* ChatResponse(response=response.choices[0].message.content): the value built, or
\* the exception raised on the way (the call's own, IndexError on an empty choices
\* list, ValidationError on a content that is not a string)
ChatBody(outcome) ==
    IF outcome.raised THEN outcome
    ELSE LET completion == Get(outcome.val) IN
         IF Len(completion.choices) = 0
         THEN Raised("IndexError", "list index out of range")
         ELSE LET content == completion.choices[1].message.content IN
              IF IsNone(content)
              THEN Raised("ValidationError", "response: Input should be a valid string")
              ELSE Returned([response |-> Get(content)])

\* chat surfacing the error as /translate does
ChatOnError_Propagates(exc) == HTTPException(500, exc.msg)

\* except Exception as exc: print(...); return ChatResponse(response="Sorry, ...")
ChatOnError(exc) == Ok([response |-> Fallback])

ChatFinish(outcome) ==
    LET body == ChatBody(outcome) IN
    IF body.raised THEN ChatOnError(body) ELSE Ok(Get(body.val))

(* --------------------------- input domains ----------------------------- *)

Opt(S) == {None} \cup {Some(x) : x \in S}
SeqsUpTo(S, n) == UNION {[1..k -> S] : k \in 0..n}

RECURSIVE Flatten(_)
Flatten(ss) == IF ss = <<>> THEN <<>> ELSE Head(ss) \o Flatten(Tail(ss))

Es == <<"e", "s">>
Texts == {[i \in 1..n |-> "t"] : n \in 0..MaxTextLen}
Codes == {[i \in 1..n |-> "e"] : n \in 0..MaxCodeLen} \cup {En, Es}

HeaderChunks ==
    { Bearer,
      <<"b", "e", "a", "r", "e", "r", " ">>,
      <<"B", "e", "a", "r", "e", "r">>,
      <<"x">> }
Headers == {Flatten(cs) : cs \in SeqsUpTo(HeaderChunks, MaxChunks)}

ChatTurns == [role : {"user", "assistant"}, content : {<<"t">>}]

GatedRoutes == {"delete_user", "me"}
AuthRoutes == GatedRoutes \cup {"verify"}

HealthRequest == [route |-> "health", authorization |-> None, payload |-> None]
TranslateRequest(p) == [route |-> "translate", authorization |-> None, payload |-> Some(p)]
AuthRequest(route, a) == [route |-> route, authorization |-> a, payload |-> None]
ChatRequest(p) == [route |-> "chat", authorization |-> None, payload |-> Some(p)]
NoRequest == [route |-> "none", authorization |-> None, payload |-> None]

AllRequests ==
    {HealthRequest}
    \cup {TranslateRequest(p) : p \in [text : Texts, target : Opt(Codes), source : Opt(Codes)]}
    \cup {AuthRequest(rt, a) : rt \in AuthRoutes, a \in Opt(Headers)}
    \cup {ChatRequest(p) :
            p \in [message : Texts, history : Opt(SeqsUpTo(ChatTurns, MaxHistory))]}

\* the requests that are put in flight together
SampleRequests ==
    { HealthRequest,
      TranslateRequest([text |-> <<"t">>, target |-> Some(Es), source |-> None]),
      AuthRequest("verify", Some(Bearer \o <<"x">>)),
      AuthRequest("delete_user", None),
      AuthRequest("delete_user", Some(Bearer \o <<"x">>)),
      AuthRequest("me", Some(<<"x">>)),
      ChatRequest([message |-> <<"t">>, history |-> None]),
      ChatRequest([message |-> <<"t">>,
                   history |-> Some(<<[role |-> "user", content |-> <<"t">>]>>)]),
      ChatRequest([message |-> <<>>, history |-> Some(<<>>)]) }

(* ---------------------- the external collaborators --------------------- *)

Uids == {"u1", "u2"}
Messages == {"boom", ""}

\* auth.verify_id_token(token): the decoded claims, or an error
VerifyOutcomes ==
    {Returned([uid |-> u]) : u \in Uids}
    \cup {Raised(c, m) :
            c \in {"InvalidIdTokenError", "ExpiredIdTokenError", "RuntimeError"},
            m \in Messages}

\* auth.get_user(uid): the user record of uid, or an error
UserRecords(uid) ==
    {[uid |-> uid, email |-> e, display_name |-> None, photo_url |-> None,
      provider_id |-> Some("firebase")] : e \in {None, Some("a@b.c")}}
GetUserOutcomes(uid) ==
    {Returned(u) : u \in UserRecords(uid)}
    \cup {Raised(c, m) : c \in {"UserNotFoundError", "RuntimeError"}, m \in Messages}

\* auth.delete_user(uid): None, or an error
DeleteUserOutcomes ==
    {Returned(None)}
    \cup {Raised(c, m) : c \in {"UserNotFoundError", "RuntimeError"}, m \in Messages}

\* translator.translate(...): a Translated, or an error
Translated == [text : {<<"h">>, <<>>}, src : {En}, dest : {En, Es}]
TranslateOutcomes ==
    {Returned(t) : t \in Translated} \cup {Raised("RuntimeError", m) : m \in Messages}

\* hf_client.chat_completion(...): a completion (possibly without choices, or with
\* a null content), or an error
Completions ==
    {[choices |-> cs] :
        cs \in { <<>>,
                 <<[message |-> [content |-> None]]>>,
                 <<[message |-> [content |-> Some("Try a flat white.")]]>>,
                 <<[message |-> [content |-> Some(Fallback)]]>> }}
ChatOutcomes ==
    {Returned(c) : c \in Completions} \cup {Raised("RuntimeError", m) : m \in Messages}

(* ------------------------------ state ---------------------------------- *)

\* req[r]   the request of slot r (route, authorization header, body)
\* pc[r]    where its handler is: "none" (no request), "new" (accepted, not yet
\*          run), "in_<call>" (inside a synchronous call to a collaborator, on the
\*          event loop's thread), "await_translate" (suspended on an awaitable),
\*          "resume_translate" (the awaitable settled), "done" (answered)
\* loop     the slot whose coroutine the event loop is running, 0 when idle
\* calls[r] the calls the handler made to the collaborators, in order
\* rets[r]  what those calls returned or raised, in order
\* resp[r]  the response, None until answered

Last(s) == s[Len(s)]

StartState ==
    /\ pc = [r \in Reqs |-> IF req[r] = NoRequest THEN "none" ELSE "new"]
    /\ loop = 0
    /\ calls = [r \in Reqs |-> <<>>]
    /\ rets = [r \in Reqs |-> <<>>]
    /\ resp = [r \in Reqs |-> None]

\* either one request drawn from the whole input domain, or NumReqs requests of
\* the sample in flight together
Init ==
    /\ \/ req \in [Reqs -> SampleRequests]
       \/ \E q \in AllRequests : req = [r \in Reqs |-> IF r = 1 THEN q ELSE NoRequest]
    /\ StartState

ValidRequest(q) ==
    CASE q.route = "translate" -> ValidTranslateRequest(Get(q.payload))
      [] q.route = "chat" -> ValidChatRequest(Get(q.payload))
      [] q.route \in GatedRoutes -> RequiredHeaderPresent(q.authorization)
      [] OTHER -> TRUE

\* the event loop picks the coroutine of r to run: it runs one at a time
CanRun(r) == loop = 0

Answer(r, response) ==
    /\ resp' = [resp EXCEPT ![r] = Some(response)]
    /\ pc' = [pc EXCEPT ![r] = "done"]
    /\ loop' = 0

CallOut(r, call, at) ==
    /\ calls' = [calls EXCEPT ![r] = Append(@, call)]
    /\ pc' = [pc EXCEPT ![r] = at]
    /\ loop' = r

Ret(r, outcome) == rets' = [rets EXCEPT ![r] = Append(@, outcome)]

(* ------------------------------ actions -------------------------------- *)

\* GET /health
HealthCheck(r) ==
    /\ pc[r] = "new" /\ CanRun(r)
    /\ req[r].route = "health"
    /\ Answer(r, Ok([status |-> "ok"]))
    /\ UNCHANGED <<req, calls, rets>>

\* a request whose body or required header fails validation never reaches its
\* handler or dependency
RejectRequest(r) ==
    /\ pc[r] = "new" /\ CanRun(r)
    /\ ~ValidRequest(req[r])
    /\ Answer(r, RequestValidationError)
    /\ UNCHANGED <<req, calls, rets>>

\* POST /translate: the handler up to its call of the engine
Translate(r) ==
    /\ pc[r] = "new" /\ CanRun(r)
    /\ req[r].route = "translate"
    /\ ValidRequest(req[r])
    /\ CallOut(r, TranslateCall(Get(req[r].payload)), "in_translate")
    /\ UNCHANGED <<req, rets, resp>>

\* the engine's call returns a Translated or raises: the handler answers
TranslateReturns(r) ==
    /\ pc[r] = "in_translate"
    /\ \E o \in TranslateOutcomes :
         /\ Ret(r, o)
         /\ Answer(r, TranslateFinish(o))
    /\ UNCHANGED <<req, calls>>

\* the engine's call returns an awaitable: "result = await result" suspends
TranslateSuspends(r) ==
    /\ pc[r] = "in_translate"
    /\ Ret(r, Returned(Awaitable))
    /\ pc' = [pc EXCEPT ![r] = "await_translate"]
    /\ loop' = 0
    /\ UNCHANGED <<req, calls, resp>>

\* the awaited result settles (a Translated, or an error)
TranslateSettles(r) ==
    /\ pc[r] = "await_translate"
    /\ \E o \in TranslateOutcomes : Ret(r, o)
    /\ pc' = [pc EXCEPT ![r] = "resume_translate"]
    /\ UNCHANGED <<req, loop, calls, resp>>

\* the event loop resumes the handler after the await
TranslateResumes(r) ==
    /\ pc[r] = "resume_translate" /\ CanRun(r)
    /\ Answer(r, TranslateFinish(Last(rets[r])))
    /\ UNCHANGED <<req, calls, rets>>

\* require_auth, up to its call of verify_id_token
RequireAuth(r) ==
    /\ pc[r] = "new" /\ CanRun(r)
    /\ req[r].route \in GatedRoutes
    /\ ValidRequest(req[r])
    /\ IF Falsy(req[r].authorization)
       THEN /\ Answer(r, RequireAuthMissing)
            /\ UNCHANGED calls
       ELSE /\ CallOut(r, VerifyIdTokenCall(ExtractToken(Get(req[r].authorization))),
                       "in_verify")
            /\ UNCHANGED resp
    /\ UNCHANGED <<req, rets>>

\* verify_id_token returns or raises inside require_auth; on success the route's
\* handler runs with the decoded claims, up to its call of the provider
RequireAuthReturns(r) ==
    /\ pc[r] = "in_verify"
    /\ req[r].route \in GatedRoutes
    /\ \E o \in VerifyOutcomes :
         /\ Ret(r, o)
         /\ IF o.raised
            THEN /\ Answer(r, RequireAuthOnError(o))
                 /\ UNCHANGED calls
            ELSE LET current_user == Get(o.val) IN
                 /\ IF req[r].route = "delete_user"
                    THEN CallOut(r, DeleteUserCall(current_user.uid), "in_delete_user")
                    ELSE CallOut(r, GetUserCall(current_user.uid), "in_get_user")
                 /\ UNCHANGED resp
    /\ UNCHANGED req

\* DELETE /auth/user: delete_user returns or raises
DeleteUserReturns(r) ==
    /\ pc[r] = "in_delete_user"
    /\ \E o \in DeleteUserOutcomes :
         /\ Ret(r, o)
         /\ Answer(r, IF o.raised THEN DeleteUserOnError(o) ELSE DeleteUserOk)
    /\ UNCHANGED <<req, calls>>

\* GET /auth/me: get_user returns or raises
GetUserReturns(r) ==
    /\ pc[r] = "in_get_user"
    /\ req[r].route = "me"
    /\ \E o \in GetUserOutcomes(Last(calls[r]).arg) :
         /\ Ret(r, o)
         /\ Answer(r, IF o.raised THEN GetUserOnError(o) ELSE GetUserOk(Get(o.val)))
    /\ UNCHANGED <<req, calls>>

\* POST /auth/verify, up to its call of verify_id_token
VerifyToken(r) ==
    /\ pc[r] = "new" /\ CanRun(r)
    /\ req[r].route = "verify"
    /\ IF Falsy(req[r].authorization)
       THEN /\ Answer(r, VerifyTokenMissing)
            /\ UNCHANGED calls
       ELSE /\ CallOut(r, VerifyIdTokenCall(ExtractToken(Get(req[r].authorization))),
                       "in_verify")
            /\ UNCHANGED resp
    /\ UNCHANGED <<req, rets>>

\* verify_id_token returns or raises inside verify_token
VerifyTokenVerified(r) ==
    /\ pc[r] = "in_verify"
    /\ req[r].route = "verify"
    /\ \E o \in VerifyOutcomes :
         /\ Ret(r, o)
         /\ IF o.raised
            THEN /\ Answer(r, VerifyTokenOnError(o))
                 /\ UNCHANGED calls
            ELSE /\ CallOut(r, GetUserCall(Get(o.val).uid), "in_get_user")
                 /\ UNCHANGED resp
    /\ UNCHANGED req

\* get_user returns or raises inside verify_token
VerifyTokenGetUserReturns(r) ==
    /\ pc[r] = "in_get_user"
    /\ req[r].route = "verify"
    /\ \E o \in GetUserOutcomes(Last(calls[r]).arg) :
         /\ Ret(r, o)
         /\ Answer(r, IF o.raised THEN VerifyTokenOnError(o) ELSE VerifyTokenOk(Get(o.val)))
    /\ UNCHANGED <<req, calls>>

\* POST /chat: the handler up to its call of the inference endpoint
Chat(r) ==
    /\ pc[r] = "new" /\ CanRun(r)
    /\ req[r].route = "chat"
    /\ ValidRequest(req[r])
    /\ CallOut(r, ChatCall(Get(req[r].payload)), "in_chat")
    /\ UNCHANGED <<req, rets, resp>>

\* chat_completion returns or raises: the handler answers
ChatReturns(r) ==
    /\ pc[r] = "in_chat"
    /\ \E o \in ChatOutcomes :
         /\ Ret(r, o)
         /\ Answer(r, ChatFinish(o))
    /\ UNCHANGED <<req, calls>>

\* every step of request r: its handler's own, and its pending call's return
Step(r) ==
    \/ HealthCheck(r)
    \/ RejectRequest(r)
    \/ Translate(r)
    \/ TranslateReturns(r)
    \/ TranslateSuspends(r)
    \/ TranslateSettles(r)
    \/ TranslateResumes(r)
    \/ RequireAuth(r)
    \/ RequireAuthReturns(r)
    \/ DeleteUserReturns(r)
    \/ GetUserReturns(r)
    \/ VerifyToken(r)
    \/ VerifyTokenVerified(r)
    \/ VerifyTokenGetUserReturns(r)
    \/ Chat(r)
    \/ ChatReturns(r)

Next == \E r \in Reqs : Step(r)

Spec == Init /\ [][Next]_vars

(* ------------------------------ properties ----------------------------- *)

Done(r) == pc[r] = "done"
Response(r) == Get(resp[r])
Body(r) == Get(Response(r).body)

\* C1: a DELETE /auth/user or GET /auth/me request without an authorization
\* header is answered 401 "Authorization header required", and the identity
\* provider is never called for it.
C1_AbsentHeaderIs401 ==
    \A r \in Reqs :
        (req[r].route \in GatedRoutes /\ IsNone(req[r].authorization)) =>
            /\ calls[r] = <<>>
            /\ Done(r) => Response(r) = [status |-> 401,
                                         detail |-> "Authorization header required",
                                         body |-> None]

\* C2: in require_auth with a non-empty header, an invalid token is answered 401
\* "Invalid ID token", an expired one 401 "Token has expired", any other provider
\* error 401 with its message, and the handler runs (with the decoded claims) only
\* after a successful verification.
C2_GateErrorMapping ==
    \A r \in Reqs :
        (req[r].route \in GatedRoutes /\ ~Falsy(req[r].authorization) /\ Len(rets[r]) >= 1) =>
            LET o == rets[r][1] IN
            IF o.raised
            THEN /\ Done(r)
                 /\ Len(calls[r]) = 1
                 /\ Response(r).status = 401
                 /\ Response(r).detail =
                        CASE o.cls = "InvalidIdTokenError" -> "Invalid ID token"
                          [] o.cls = "ExpiredIdTokenError" -> "Token has expired"
                          [] OTHER -> o.msg
            ELSE /\ Len(calls[r]) = 2
                 /\ calls[r][2].arg = Get(o.val).uid

\* C3: POST /auth/verify always answers 200; valid=false comes with an error and
\* valid=true with a user.
C3_VerifyAlways200 ==
    \A r \in Reqs :
        (req[r].route = "verify" /\ Done(r)) =>
            /\ Response(r).status = 200
            /\ ~IsNone(Response(r).body)
            /\ Body(r).valid \in BOOLEAN
            /\ ~Body(r).valid => ~IsNone(Body(r).error)
            /\ Body(r).valid => ~IsNone(Body(r).user)

\* /auth/verify answered valid=false after get_user failed
C3_Witness ==
    \E r \in Reqs :
        /\ req[r].route = "verify" /\ Done(r)
        /\ Len(rets[r]) = 2 /\ rets[r][2].raised
        /\ ~Body(r).valid /\ ~IsNone(Body(r).error)

\* the inference call failed: it raised, or its result has no choice or no content
ChatFailed(o) ==
    IF o.raised THEN TRUE
    ELSE IF Len(Get(o.val).choices) = 0 THEN TRUE
    ELSE IsNone(Get(o.val).choices[1].message.content)

\* C4 as stated: POST /chat answers 200 for every input, with the fixed fallback
\* text whenever the inference call fails.
C4_ChatAlways200 ==
    \A r \in Reqs :
        (req[r].route = "chat" /\ Done(r)) =>
            /\ Response(r).status = 200
            /\ (Len(rets[r]) = 1 /\ ChatFailed(rets[r][1])) =>
                   Body(r).response = "Sorry, couldn't connect. Try again!"

\* C4 amended: POST /chat answers 200 for every request whose message has at
\* least one character, with the fixed fallback text whenever the inference call
\* fails; a request with an empty message is rejected with 422 and calls nothing.
C4_ValidChatAlways200 ==
    \A r \in Reqs :
        (req[r].route = "chat" /\ Done(r)) =>
            IF Len(Get(req[r].payload).message) >= 1
            THEN /\ Response(r).status = 200
                 /\ Len(rets[r]) = 1
                 /\ ChatFailed(rets[r][1]) =>
                        Body(r).response = "Sorry, couldn't connect. Try again!"
            ELSE /\ Response(r).status = 422
                 /\ calls[r] = <<>>

\* /chat answered with the fallback after a completion without choices
C4_Witness ==
    \E r \in Reqs :
        /\ req[r].route = "chat" /\ Done(r)
        /\ Len(rets[r]) = 1 /\ ~rets[r][1].raised
        /\ Len(Get(rets[r][1].val).choices) = 0
        /\ Response(r).status = 200
        /\ Body(r).response = "Sorry, couldn't connect. Try again!"

\* the rejection conditions of C5, from the claim
C5_Invalid(p) ==
    IF Len(p.text) = 0 THEN TRUE
    ELSE IF ~IsNone(p.target) /\ ~(Len(Get(p.target)) \in 2..5) THEN TRUE
    ELSE ~IsNone(p.source) /\ ~(Len(Get(p.source)) \in 2..5)

\* C5: a /translate body with an empty text, or a target or non-null source whose
\* length is outside 2..5, is rejected and the engine is never called; every other
\* request calls the engine exactly once.
C5_ValidationGuardsEngine ==
    \A r \in Reqs :
        req[r].route = "translate" =>
            IF C5_Invalid(Get(req[r].payload))
            THEN /\ calls[r] = <<>>
                 /\ Done(r) => Response(r).status = 422
            ELSE /\ Len(calls[r]) <= 1
                 /\ Done(r) => (Len(calls[r]) = 1 /\ calls[r][1].op = "translate")

\* a /translate request with a non-empty text and a target of 6 characters was rejected
C5_Witness ==
    \E r \in Reqs :
        /\ req[r].route = "translate" /\ Done(r)
        /\ Len(Get(req[r].payload).text) >= 1
        /\ ~IsNone(Get(req[r].payload).target)
        /\ Len(Get(Get(req[r].payload).target)) = 6
        /\ Response(r).status = 422
        /\ calls[r] = <<>>

\* C6: a valid /translate request calls the engine with dest = target and
\* src = source or "auto", and ends either 200 with the result's text, src and
\* dest, or 500 with the message of the exception of the call (or of the awaited
\* result).
C6_TranslateOutcome ==
    \A r \in Reqs :
        (req[r].route = "translate" /\ Done(r) /\ ~C5_Invalid(Get(req[r].payload))) =>
            LET p == Get(req[r].payload)
                o == Last(rets[r])
            IN  /\ calls[r] = << [op |-> "translate", text |-> p.text,
                                  dest |-> IF IsNone(p.target) THEN <<"e", "n">>
                                           ELSE Get(p.target),
                                  src |-> IF IsNone(p.source) THEN <<"a", "u", "t", "o">>
                                          ELSE Get(p.source)] >>
                /\ IF o.raised
                   THEN Response(r) = [status |-> 500, detail |-> o.msg, body |-> None]
                   ELSE Response(r) =
                            [status |-> 200, detail |-> "",
                             body |-> Some([translated_text |-> Get(o.val).text,
                                            detected_source |-> Get(o.val).src,
                                            target |-> Get(o.val).dest])]

\* a valid /translate request ended 200 after awaiting the engine's result, with a
\* detected source that differs from the result's target
C6_Witness ==
    \E r \in Reqs :
        /\ req[r].route = "translate" /\ Done(r)
        /\ Len(rets[r]) = 2
        /\ Response(r).status = 200
        /\ Body(r).detected_source # Body(r).target

\* C7: after the gate, DELETE /auth/user resp. GET /auth/me calls delete_user resp.
\* get_user exactly once with the uid of the decoded claims and answers 200 on
\* success, 404 "User not found" when the record is absent, 500 with the message
\* on any other error.
C7_AfterGate ==
    \A r \in Reqs :
        (req[r].route \in GatedRoutes /\ Len(rets[r]) >= 1 /\ ~rets[r][1].raised) =>
            /\ Len(calls[r]) = 2
            /\ calls[r][2] =
                   [op |-> IF req[r].route = "delete_user" THEN "delete_user" ELSE "get_user",
                    arg |-> Get(rets[r][1].val).uid]
            /\ Done(r) =>
                   /\ Len(rets[r]) = 2
                   /\ LET o == rets[r][2] IN
                      IF ~o.raised
                      THEN Response(r).status = 200
                      ELSE IF o.cls = "UserNotFoundError"
                      THEN /\ Response(r).status = 404
                           /\ Response(r).detail = "User not found"
                      ELSE /\ Response(r).status = 500
                           /\ Response(r).detail = o.msg

\* DELETE /auth/user passed the gate and was answered 404 because the record was absent
C7_Witness ==
    \E r \in Reqs :
        /\ req[r].route = "delete_user" /\ Done(r)
        /\ Len(rets[r]) = 2
        /\ rets[r][2].raised /\ rets[r][2].cls = "UserNotFoundError"
        /\ Response(r).status = 404

WaitingOnCall(r) ==
    pc[r] \in {"in_translate", "in_verify", "in_delete_user", "in_get_user", "in_chat",
               "await_translate"}
InFlight(r) == pc[r] \notin {"none", "done"}

\* C8: while one request waits on a call to a collaborator, every other request
\* in flight can take its next step.
C8_NoBlocking ==
    \A r1, r2 \in Reqs :
        (r1 # r2 /\ WaitingOnCall(r1) /\ InFlight(r2)) => ENABLED Step(r2)

\* the token the claim of C9 expects for header h
C9_Token(h) ==
    IF Len(h) >= 7 /\ SubSeq(h, 1, 7) = <<"B", "e", "a", "r", "e", "r", " ">>
    THEN SubSeq(h, 8, Len(h))
    ELSE h

\* C9: the token handed to verify_id_token is the header without its leading
\* "Bearer " (the rest unchanged), or the header itself when it has no such prefix.
C9_OnlyLeadingPrefixRemoved ==
    \A r \in Reqs :
        (req[r].route \in AuthRoutes /\ Len(calls[r]) >= 1) =>
            calls[r][1] = [op |-> "verify_id_token",
                           arg |-> C9_Token(Get(req[r].authorization))]

\* C10: the call forwarded by /chat is the fixed system prompt followed by the user
\* message, with the fixed model and max_tokens 150; two requests with the same
\* message forward the same call, and get the same answer from the same result,
\* whatever their histories.
C10_HistoryIgnored ==
    /\ \A r \in Reqs :
        (req[r].route = "chat" /\ Len(calls[r]) >= 1) =>
            calls[r] = << [op |-> "chat_completion",
                           messages |->
                               << [role |-> "system",
                                   content |->
                                       "You are a friendly coffee expert. Keep answers short."],
                                  [role |-> "user",
                                   content |-> Get(req[r].payload).message] >>,
                           model |-> "meta-llama/Meta-Llama-3-8B-Instruct",
                           max_tokens |-> 150] >>
    /\ \A r1, r2 \in Reqs :
        (/\ req[r1].route = "chat" /\ req[r2].route = "chat"
         /\ Get(req[r1].payload).message = Get(req[r2].payload).message
         /\ Len(calls[r1]) >= 1 /\ Len(calls[r2]) >= 1) =>
            /\ calls[r1] = calls[r2]
            /\ (Done(r1) /\ Done(r2) /\ rets[r1] = rets[r2]) => resp[r1] = resp[r2]

\* two /chat requests with the same message and different histories were both
\* forwarded and answered
C10_Witness ==
    \E r1, r2 \in Reqs :
        /\ req[r1].route = "chat" /\ req[r2].route = "chat"
        /\ Get(req[r1].payload).message = Get(req[r2].payload).message
        /\ Get(req[r1].payload).history # Get(req[r2].payload).history
        /\ Done(r1) /\ Done(r2)
        /\ Len(calls[r1]) = 1 /\ Len(calls[r2]) = 1

====
